---- MODULE Spec2Model ----
(***************************************************************************)
(* QUBO construction and result interpretation of the teaching notebooks:  *)
(* graph partitioning, maximum cut (EX2-solution.ipynb, EX0) and the       *)
(* knapsack hybrid solver (knapsack_dwave).  One run of a notebook section *)
(* is a behaviour: the coefficient map is built loop iteration by loop     *)
(* iteration, the sampler is called, and the returned samples are          *)
(* interpreted.  The sampler itself is opaque: it may return any ranked    *)
(* list of binary assignments; energies are those of the model it was      *)
(* given.                                                                  *)
(***************************************************************************)
EXTENDS Integers, Sequences, FiniteSets, TLC

\* ------------------------------------------------------------------ bounds
\* Largest number of nodes of a random partitioning graph (40 in the notebook).
MaxNodes == 3
\* Largest Lagrange parameter gamma of the encodings (80 in the notebook).
MaxGamma == 3
\* Largest number of records a sampler call returns (num_reads).
MaxReads == 2
\* Largest number of knapsack items (50000 in the notebook).
MaxItems == 2
\* Largest value and weight of a knapsack item (9998 in the notebook).
MaxCoef == 2
\* Largest node count of the graphs whose encoding alone is checked.
MaxEncodeNodes == 4
\* Largest node count of the edge-free graphs (the map is the size penalty).
MaxPenaltyNodes == 6
\* Largest node count of the instances used for the partition-size check.
MaxSizeNodes == 42
\* Largest node label and largest length of the edge lists graphs are built from.
MaxListNodes == 3
MaxListEdges == 3
\* Largest penalty weight A of the toy problem (4 in the notebook).
MaxPenalty == 4

VARIABLES
    variant,    \* which notebook section runs: "partition", "maxcut", "knapsack"
    G,          \* the graph: [nodes |-> G.nodes in order, edges |-> G.edges in order]
    gamma,      \* the Lagrange parameter of the partitioning section (A of the toy cell)
    items,      \* knapsack arguments: [values, weights, max_weight]
    Q,          \* the coefficient map (a defaultdict(int)): key -> coefficient
    cqm,        \* knapsack model: [obj, constraint: linear maps; rhs; capacity: added]
    pc,         \* position in the section
    k,          \* index of the next loop iteration
    calls,      \* number of sampler invocations so far
    response,   \* the sample set returned by the sampler: a sequence of records
    out         \* what the section printed, returned or raised

vars == <<variant, G, gamma, items, Q, cqm, pc, k, calls, response, out>>

\* ----------------------------------------------------------------- helpers
RECURSIVE SumFun(_, _)
\* Python's sum(...) over the values f takes on the finite set S.
SumFun(f, S) ==
    IF S = {} THEN 0
    ELSE LET e == CHOOSE e \in S : TRUE
         IN  f[e] + SumFun(f, S \ {e})

\* The elements of a sequence, as a set.
Range(s) == {s[i] : i \in DOMAIN s}

\* The empty mapping (defaultdict(int) with no key, dict()).
EmptyMap == [x \in {} |-> 0]

RECURSIVE CombFrom(_, _)
CombFrom(s, a) ==
    IF a >= Len(s) THEN <<>>
    ELSE [b \in 1..(Len(s) - a) |-> <<s[a], s[a + b]>>] \o CombFrom(s, a + 1)

\* itertools.combinations(s, 2): the pairs of s in lexicographic position order.
combinations(s) == CombFrom(s, 1)

\* range(n) as a sequence: 0, 1, ..., n-1.
range(n) == [i \in 1..n |-> i - 1]

\* All binary assignments of the variables in the set V.
Assignments(V) == [V -> {0, 1}]

\* ------------------------------------------------------- coefficient maps
\* The update that stores the new term in place of the coefficient.
AddToOverwrite(Qm, key, d) == (key :> d) @@ Qm

\* Q[key] += d on a defaultdict(int): a missing key starts from 0.
AddTo(Qm, key, d) ==
    IF key \in DOMAIN Qm THEN [Qm EXCEPT ![key] = @ + d]
    ELSE Qm @@ (key :> d)

\* The variables of the model built from Q (sample_qubo): every label in a key.
Variables(Qm) == {key[1] : key \in DOMAIN Qm} \cup {key[2] : key \in DOMAIN Qm}

\* Energy of a QUBO coefficient map on assignment x, as sample_qubo computes
\* it: the sum over the keys (i, j) of Q[(i, j)] * x_i * x_j, taken row by
\* row of the Q matrix (an absent entry counts 0).
Energy(Qm, x) ==
    LET V == Variables(Qm)
        row(i) == SumFun([j \in V |-> IF <<i, j>> \in DOMAIN Qm
                                      THEN Qm[<<i, j>>] * x[i] * x[j]
                                      ELSE 0], V)
    IN  SumFun([i \in V |-> row(i)], V)

\* The edge step with the quadratic term added once instead of twice.
PartitionEdgeStepHalfCoupling(Qm, e) ==
    AddTo(AddTo(AddTo(Qm, <<e[1], e[1]>>, 1), <<e[2], e[2]>>, 1), <<e[1], e[2]>>, -1)

\* The edge step with every term of the objective doubled.
PartitionEdgeStepDoubled(Qm, e) ==
    AddTo(AddTo(AddTo(Qm, <<e[1], e[1]>>, 2), <<e[2], e[2]>>, 2), <<e[1], e[2]>>, -4)

\* One iteration of the partitioning edge loop.
PartitionEdgeStep(Qm, e) ==
    AddTo(AddTo(AddTo(Qm, <<e[1], e[1]>>, 1), <<e[2], e[2]>>, 1), <<e[1], e[2]>>, -2)

\* The node step with the diagonal penalty gamma*(2-n).
PartitionNodeStepShifted(Qm, i, g, n) == AddTo(Qm, <<i, i>>, g * (2 - n))

\* The node step with the diagonal penalty not scaled by gamma.
PartitionNodeStepUnweighted(Qm, i, g, n) == AddTo(Qm, <<i, i>>, 1 - n)

\* The node step storing the penalty in place of the diagonal coefficient.
PartitionNodeStepOverwrite(Qm, i, g, n) == (<<i, i>> :> g * (1 - n)) @@ Qm

\* One iteration of the partitioning node loop.
PartitionNodeStep(Qm, i, g, n) == AddTo(Qm, <<i, i>>, g * (1 - n))

\* The pair step with the factor 2 of the expanded square forgotten.
PartitionPairStepNoFactor(Qm, p, g) == AddTo(Qm, <<p[1], p[2]>>, g)

\* The pair step storing its term under the reversed key (j, i).
PartitionPairStepReversedKey(Qm, p, g) == AddTo(Qm, <<p[2], p[1]>>, 2 * g)

\* One iteration of the partitioning loop over combinations(G.nodes, 2).
PartitionPairStep(Qm, p, g) == AddTo(Qm, <<p[1], p[2]>>, 2 * g)

\* The max-cut step writing its terms instead of accumulating them.
MaxCutEdgeStepOverwrite(Qm, e) ==
    (<<e[1], e[1]>> :> -1) @@ (<<e[2], e[2]>> :> -1) @@ (<<e[1], e[2]>> :> 2) @@ Qm

\* The max-cut step with the sign of the maximisation not flipped.
MaxCutEdgeStepNoFlip(Qm, e) ==
    AddTo(AddTo(AddTo(Qm, <<e[1], e[1]>>, 1), <<e[2], e[2]>>, 1), <<e[1], e[2]>>, -2)

\* The max-cut step with the quadratic term added once instead of twice.
MaxCutEdgeStepSingleCoupling(Qm, e) ==
    AddTo(AddTo(AddTo(Qm, <<e[1], e[1]>>, -1), <<e[2], e[2]>>, -1), <<e[1], e[2]>>, 1)

\* The max-cut step with the linear term of the second endpoint left out.
MaxCutEdgeStepOneEndpoint(Qm, e) ==
    AddTo(AddTo(Qm, <<e[1], e[1]>>, -1), <<e[1], e[2]>>, 2)

\* The max-cut step with the quadratic term split over (i,j) and (j,i).
MaxCutEdgeStepSplitCoupling(Qm, e) ==
    AddTo(AddTo(AddTo(AddTo(Qm, <<e[1], e[1]>>, -1), <<e[2], e[2]>>, -1),
                <<e[1], e[2]>>, 1), <<e[2], e[1]>>, 1)

\* One iteration of the max-cut edge loop.
MaxCutEdgeStep(Qm, e) ==
    AddTo(AddTo(AddTo(Qm, <<e[1], e[1]>>, -1), <<e[2], e[2]>>, -1), <<e[1], e[2]>>, 2)

\* The Q matrix of the getting-started notebook, written key by key.
GettingStartedQ ==
    (<<1, 1>> :> -2) @@ (<<2, 2>> :> -2) @@ (<<1, 2>> :> 2) @@ (<<3, 3>> :> -3) @@
    (<<1, 3>> :> 2) @@ (<<4, 4>> :> -3) @@ (<<2, 4>> :> 2) @@ (<<3, 4>> :> 2) @@
    (<<5, 5>> :> -2) @@ (<<3, 5>> :> 2) @@ (<<4, 5>> :> 2)

\* ---------------------------------------------------------------- instances
\* nx.gnp_random_graph(n, p): nodes 0..n-1, each pair (u, v), u < v, an edge or
\* not; G.edges reports the edges in lexicographic order.
RandomGraphs(n) ==
    LET nodes == range(n)
        pairs == combinations(nodes)
    IN  {[nodes |-> nodes, edges |-> SelectSeq(pairs, LAMBDA e : e \in E)] :
            E \in SUBSET Range(pairs)}

\* The graph on nodes 0..n-1 without edges.
EdgelessGraph(n) == [nodes |-> range(n), edges |-> <<>>]

\* The path 0 - 1 - ... - (n-1).
PathGraph(n) == [nodes |-> range(n), edges |-> [i \in 1..(n - 1) |-> <<i - 1, i>>]]

\* The max-cut graph: G.add_edges_from([(1,2),(1,3),(2,4),(3,4),(3,5),(4,5)]).
MaxCutGraph ==
    [nodes |-> <<1, 2, 3, 4, 5>>,
     edges |-> << <<1, 2>>, <<1, 3>>, <<2, 4>>, <<3, 4>>, <<3, 5>>, <<4, 5>> >>]

NoGraph == [nodes |-> <<>>, edges |-> <<>>]
NoItems == [values |-> <<>>, weights |-> <<>>, max_weight |-> 0]
NoModel == [obj |-> EmptyMap, constraint |-> EmptyMap, rhs |-> 0, capacity |-> FALSE]
NoOutput == [kind |-> "none"]

\* ------------------------------------------------------------------- Init
\* A fresh kernel at the first cell of a section: Q = defaultdict(int), no
\* sampler call yet.
Fresh ==
    /\ Q = EmptyMap
    /\ cqm = NoModel
    /\ k = 1
    /\ calls = 0
    /\ response = <<>>
    /\ out = NoOutput

\* The partitioning section on a random graph, with the smallest penalty
\* weight: the size constraint may then lose against the objective.
InitPartition ==
    /\ variant = "partition"
    /\ \E n \in 2..MaxNodes : G \in RandomGraphs(n)
    /\ gamma = 1
    /\ items = NoItems
    /\ pc = "edges"
    /\ Fresh

InitMaxCut ==
    /\ variant = "maxcut"
    /\ G = MaxCutGraph
    /\ gamma = 0
    /\ items = NoItems
    /\ pc = "edges"
    /\ Fresh

\* knapsack_dwave(values_array, weights_array, knapsack_max_weight): values and
\* weights are positive (each the smallest, 1, or the largest, MaxCoef), the
\* limit is 80% of the total weight.
InitKnapsack ==
    /\ variant = "knapsack"
    /\ G = NoGraph
    /\ gamma = 0
    /\ \E n \in 1..MaxItems :
         \E values \in [0..(n - 1) -> {1, MaxCoef}], weights \in [0..(n - 1) -> {1, MaxCoef}] :
            items = [values |-> values, weights |-> weights,
                     max_weight |-> (8 * SumFun(weights, DOMAIN weights)) \div 10]
    /\ pc = "build"
    /\ Fresh

Init == InitPartition \/ InitMaxCut \/ InitKnapsack

\* ---------------------------------------------------------------- encoders
\* for u, v in G.edges: Q[(u,u)] += 1; Q[(v,v)] += 1; Q[(u,v)] += -2
PartitionEdgeLoop ==
    /\ variant = "partition" /\ pc = "edges"
    /\ IF k <= Len(G.edges)
       THEN /\ Q' = PartitionEdgeStep(Q, G.edges[k])
            /\ k' = k + 1
            /\ pc' = pc
       ELSE /\ Q' = Q
            /\ k' = 1
            /\ pc' = "nodes"
    /\ UNCHANGED <<variant, G, gamma, items, cqm, calls, response, out>>

\* for i in G.nodes: Q[(i,i)] += gamma*(1-len(G.nodes))
PartitionNodeLoop ==
    /\ variant = "partition" /\ pc = "nodes"
    /\ IF k <= Len(G.nodes)
       THEN /\ Q' = PartitionNodeStep(Q, G.nodes[k], gamma, Len(G.nodes))
            /\ k' = k + 1
            /\ pc' = pc
       ELSE /\ Q' = Q
            /\ k' = 1
            /\ pc' = "pairs"
    /\ UNCHANGED <<variant, G, gamma, items, cqm, calls, response, out>>

\* for i, j in combinations(G.nodes, 2): Q[(i,j)] += 2*gamma
PartitionPairLoop ==
    /\ variant = "partition" /\ pc = "pairs"
    /\ IF k <= Len(combinations(G.nodes))
       THEN /\ Q' = PartitionPairStep(Q, combinations(G.nodes)[k], gamma)
            /\ k' = k + 1
            /\ pc' = pc
       ELSE /\ Q' = Q
            /\ k' = 1
            /\ pc' = "sample"
    /\ UNCHANGED <<variant, G, gamma, items, cqm, calls, response, out>>

\* for i, j in G.edges: Q[(i,i)] += -1; Q[(j,j)] += -1; Q[(i,j)] += 2
MaxCutEdgeLoop ==
    /\ variant = "maxcut" /\ pc = "edges"
    /\ IF k <= Len(G.edges)
       THEN /\ Q' = MaxCutEdgeStep(Q, G.edges[k])
            /\ k' = k + 1
            /\ pc' = pc
       ELSE /\ Q' = Q
            /\ k' = 1
            /\ pc' = "sample"
    /\ UNCHANGED <<variant, G, gamma, items, cqm, calls, response, out>>

\* The knapsack step with the objective not negated for minimisation.
KnapsackItemStepMaximise(m, i, values, weights) ==
    [m EXCEPT !.obj = (i :> values[i]) @@ @,
              !.constraint = (i :> weights[i]) @@ @]

\* One iteration of the knapsack loop: obj.set_linear(i, -values[i]) and
\* constraint.set_linear(i, weights[i]) on the freshly added variable i.
KnapsackItemStep(m, i, values, weights) ==
    [m EXCEPT !.obj = (i :> (0 - values[i])) @@ @,
              !.constraint = (i :> weights[i]) @@ @]

\* for i in range(len(values)): ...; then cqm.set_objective(obj) and
\* cqm.add_constraint(constraint, sense="<=", rhs=max_weight, label="capacity").
KnapsackBuildLoop ==
    /\ variant = "knapsack" /\ pc = "build"
    /\ IF k <= Cardinality(DOMAIN items.values)
       THEN /\ cqm' = KnapsackItemStep(cqm, k - 1, items.values, items.weights)
            /\ k' = k + 1
            /\ pc' = pc
       ELSE /\ cqm' = [cqm EXCEPT !.rhs = items.max_weight, !.capacity = TRUE]
            /\ k' = 1
            /\ pc' = "sample"
    /\ UNCHANGED <<variant, G, gamma, items, Q, calls, response, out>>

\* ----------------------------------------------------------------- sampler
\* Energy of the knapsack objective (linear terms only) on assignment x.
ObjectiveEnergy(obj, x) == SumFun([i \in DOMAIN obj |-> obj[i] * x[i]], DOMAIN obj)

\* The capacity constraint declared with the opposite sense (">=").
IsFeasibleWrongSense(m, x) ==
    m.capacity =>
        SumFun([i \in DOMAIN m.constraint |-> m.constraint[i] * x[i]],
               DOMAIN m.constraint) >= m.rhs

\* The is_feasible flag of the constraint-aware backend: the declared capacity
\* constraint, sum of constraint[i] * x[i] <= rhs, evaluated on the sample.
IsFeasible(m, x) ==
    m.capacity =>
        SumFun([i \in DOMAIN m.constraint |-> m.constraint[i] * x[i]],
               DOMAIN m.constraint) <= m.rhs

\* The call that leaves the cell at the sampler line, to be submitted again.
SampleQuboResubmit ==
    /\ variant \in {"partition", "maxcut"} /\ pc = "sample" /\ calls < 3
    /\ calls' = calls + 1
    /\ UNCHANGED <<variant, G, gamma, items, Q, cqm, pc, k, response, out>>

\* response = sampler.sample_qubo(Q, ...): any non-empty list of assignments
\* of Q's variables, in any order, each with its energy under Q.
SampleQubo ==
    /\ variant \in {"partition", "maxcut"} /\ pc = "sample"
    /\ LET record == [x \in Assignments(Variables(Q)) |->
                        [sample |-> x, energy |-> Energy(Q, x)]]
       IN  \E L \in 1..MaxReads :
             \E xs \in [1..L -> DOMAIN record] :
                response' = [r \in 1..L |-> record[xs[r]]]
    /\ calls' = calls + 1
    /\ pc' = "interpret"
    /\ UNCHANGED <<variant, G, gamma, items, Q, cqm, k, out>>

\* sampleset = sampler.sample_cqm(cqm, ...): as above, each record also flagged
\* feasible or not by the backend.
SampleCqm ==
    /\ variant = "knapsack" /\ pc = "sample"
    /\ LET record == [x \in Assignments(DOMAIN cqm.obj) |->
                        [sample |-> x,
                         energy |-> ObjectiveEnergy(cqm.obj, x),
                         is_feasible |-> IsFeasible(cqm, x)]]
       IN  \E L \in 1..MaxReads :
             \E xs \in [1..L -> DOMAIN record] :
                response' = [r \in 1..L |-> record[xs[r]]]
    /\ calls' = calls + 1
    /\ pc' = "interpret"
    /\ UNCHANGED <<variant, G, gamma, items, Q, cqm, k, out>>

\* The errors the sampling backend may raise instead of returning samples.
BackendErrors == {"solver failure", "connection lost"}

\* A handler that turns the backend's error into the invalid verdict.
PropagateAsInvalid(e) == [kind |-> "invalid"]

\* No try/except surrounds the sampler call: the error ends the cell, or
\* knapsack_dwave, as it was raised.
Propagate(e) == [kind |-> "raise", error |-> e]

\* sampler.sample_qubo(Q, ...) raises.
SampleQuboFails ==
    /\ variant \in {"partition", "maxcut"} /\ pc = "sample"
    /\ \E e \in BackendErrors : out' = Propagate(e)
    /\ calls' = calls + 1
    /\ pc' = "failed"
    /\ UNCHANGED <<variant, G, gamma, items, Q, cqm, k, response>>

\* sampler.sample_cqm(cqm, ...) raises.
SampleCqmFails ==
    /\ variant = "knapsack" /\ pc = "sample"
    /\ \E e \in BackendErrors : out' = Propagate(e)
    /\ calls' = calls + 1
    /\ pc' = "failed"
    /\ UNCHANGED <<variant, G, gamma, items, Q, cqm, k, response>>

\* ------------------------------------------------------------ interpreters
RECURSIVE SortedSeq(_)
\* sorted(S) for a finite set of integers.
SortedSeq(S) ==
    IF S = {} THEN <<>>
    ELSE LET m == CHOOSE m \in S : \A y \in S : m <= y
         IN  <<m>> \o SortedSeq(S \ {m})

RECURSIVE ByEnergy(_, _)
\* The record indices of rs in I ordered by ascending energy, earlier records
\* first among equal energies (SampleSet.data(sorted_by='energy')).
ByEnergy(rs, I) ==
    IF I = {} THEN <<>>
    ELSE LET m == CHOOSE m \in I :
                    \A y \in I : \/ rs[m].energy < rs[y].energy
                                 \/ rs[m].energy = rs[y].energy /\ m <= y
         IN  <<m>> \o ByEnergy(rs, I \ {m})

\* The record at position 0 taken for the best one.
FirstIsRecordZero(rs) == rs[1]

\* SampleSet.first: the lowest-energy record.
First(rs) == rs[ByEnergy(rs, DOMAIN rs)[1]]

\* The filter keeping every record, feasible or not.
FilterFeasibleKeepAll(rs) == rs

\* sampleset.filter(lambda row: row.is_feasible)
FilterFeasible(rs) == SelectSeq(rs, LAMBDA r : r.is_feasible)

\* math.floor(n/2) and math.ceil(n/2)
Floor2(n) == n \div 2
Ceil2(n) == (n + 1) \div 2

\* The size check that accepts every sample.
SizeOkAlways(sample, n) == TRUE

\* The size check without the ceiling: exactly floor(n/2) ones.
SizeOkFloorOnly(sample, n) == SumFun(sample, DOMAIN sample) = Floor2(n)

\* sum(sample) in [math.floor(len(G.nodes)/2), math.ceil(len(G.nodes)/2)]
SizeOk(sample, n) == SumFun(sample, DOMAIN sample) \in {Floor2(n), Ceil2(n)}

\* The edge term with the product subtracted once.
CutTermSingleProduct(sample, e) ==
    sample[e[1]] + sample[e[2]] - sample[e[1]] * sample[e[2]]

\* The term one edge adds to num_cut_edges.
CutTerm(sample, e) == sample[e[1]] + sample[e[2]] - 2 * sample[e[1]] * sample[e[2]]

RECURSIVE CountCut(_, _, _)
\* num_cut_edges after the loop over the first j edges.
CountCut(edges, sample, j) ==
    IF j = 0 THEN 0
    ELSE CountCut(edges, sample, j - 1) + CutTerm(sample, edges[j])

\* The last lines of the partitioning cell: take record 0, check the subset
\* size, count the cut edges, print.
InterpretPartition ==
    /\ variant = "partition" /\ pc = "interpret"
    /\ LET sample == response[1].sample
       IN  IF SizeOk(sample, Len(G.nodes))
           THEN out' = [kind |-> "valid",
                        num_cut_edges |-> CountCut(G.edges, sample, Len(G.edges))]
           ELSE out' = [kind |-> "invalid"]
    /\ pc' = "done"
    /\ UNCHANGED <<variant, G, gamma, items, Q, cqm, k, calls, response>>

\* The row printing the energy itself as the cut size.
MaxCutRowNoNegation(r) ==
    LET keys == SortedSeq(DOMAIN r.sample)
    IN  [S0 |-> SelectSeq(keys, LAMBDA v : r.sample[v] = 0),
         S1 |-> SelectSeq(keys, LAMBDA v : r.sample[v] = 1),
         E |-> r.energy,
         cut_size |-> r.energy]

\* One printed row of the max-cut table: Set 0, Set 1, Energy, Cut Size.
MaxCutRow(r) ==
    LET keys == SortedSeq(DOMAIN r.sample)
    IN  [S0 |-> SelectSeq(keys, LAMBDA v : r.sample[v] = 0),
         S1 |-> SelectSeq(keys, LAMBDA v : r.sample[v] = 1),
         E |-> r.energy,
         cut_size |-> 0 - r.energy]

\* The max-cut result cells listing as uncut only the edges inside Set 0.
InterpretMaxCutUncutInSetZero ==
    /\ variant = "maxcut" /\ pc = "interpret"
    /\ LET order == ByEnergy(response, DOMAIN response)
           lut == First(response).sample
       IN  out' = [kind |-> "table",
                   rows |-> [i \in DOMAIN order |-> MaxCutRow(response[order[i]])],
                   lut |-> lut,
                   S0 |-> SelectSeq(G.nodes, LAMBDA node : lut[node] = 0),
                   S1 |-> SelectSeq(G.nodes, LAMBDA node : lut[node] # 0),
                   cut_edges |-> SelectSeq(G.edges, LAMBDA e : lut[e[1]] # lut[e[2]]),
                   uncut_edges |->
                       SelectSeq(G.edges, LAMBDA e : lut[e[1]] = 0 /\ lut[e[2]] = 0)]
    /\ pc' = "done"
    /\ UNCHANGED <<variant, G, gamma, items, Q, cqm, k, calls, response>>

\* The max-cut result cells: print every record by ascending energy, then
\* split nodes and edges by the best record's sample (lut).
InterpretMaxCut ==
    /\ variant = "maxcut" /\ pc = "interpret"
    /\ LET order == ByEnergy(response, DOMAIN response)
           lut == First(response).sample
       IN  out' = [kind |-> "table",
                   rows |-> [i \in DOMAIN order |-> MaxCutRow(response[order[i]])],
                   lut |-> lut,
                   S0 |-> SelectSeq(G.nodes, LAMBDA node : lut[node] = 0),
                   S1 |-> SelectSeq(G.nodes, LAMBDA node : lut[node] # 0),
                   cut_edges |-> SelectSeq(G.edges, LAMBDA e : lut[e[1]] # lut[e[2]]),
                   uncut_edges |-> SelectSeq(G.edges, LAMBDA e : lut[e[1]] = lut[e[2]])]
    /\ pc' = "done"
    /\ UNCHANGED <<variant, G, gamma, items, Q, cqm, k, calls, response>>

\* The tail of knapsack_dwave summing the weights of all the items instead of
\* the selected ones.
InterpretKnapsackAllWeights ==
    /\ variant = "knapsack" /\ pc = "interpret"
    /\ LET feasible_sampleset == FilterFeasible(response)
       IN  IF Len(feasible_sampleset) = 0
           THEN out' = [kind |-> "raise", error |-> "ValueError",
                        message |-> "No feasible solution found"]
           ELSE LET best == First(feasible_sampleset)
                    selected_items ==
                        SelectSeq(SortedSeq(DOMAIN best.sample),
                                  LAMBDA key : best.sample[key] = 1)
                IN  out' = [kind |-> "return",
                            total_value |->
                                SumFun(items.values, Range(selected_items)),
                            total_weight |->
                                SumFun(items.weights, DOMAIN items.weights),
                            selected_items |-> selected_items,
                            best_solution_energy |-> best.energy,
                            best |-> best]
    /\ pc' = "done"
    /\ UNCHANGED <<variant, G, gamma, items, Q, cqm, k, calls, response>>

\* The tail of knapsack_dwave: filter the feasible records, raise if there is
\* none, else decode the lowest-energy feasible record and return.
InterpretKnapsack ==
    /\ variant = "knapsack" /\ pc = "interpret"
    /\ LET feasible_sampleset == FilterFeasible(response)
       IN  IF Len(feasible_sampleset) = 0
           THEN out' = [kind |-> "raise", error |-> "ValueError",
                        message |-> "No feasible solution found"]
           ELSE LET best == First(feasible_sampleset)
                    selected_items ==
                        SelectSeq(SortedSeq(DOMAIN best.sample),
                                  LAMBDA key : best.sample[key] = 1)
                IN  out' = [kind |-> "return",
                            total_value |->
                                SumFun(items.values, Range(selected_items)),
                            total_weight |->
                                SumFun(items.weights, Range(selected_items)),
                            selected_items |-> selected_items,
                            best_solution_energy |-> best.energy,
                            best |-> best]
    /\ pc' = "done"
    /\ UNCHANGED <<variant, G, gamma, items, Q, cqm, k, calls, response>>

\* ---------------------------------------------------------- specifications
Next ==
    \/ PartitionEdgeLoop
    \/ PartitionNodeLoop
    \/ PartitionPairLoop
    \/ MaxCutEdgeLoop
    \/ KnapsackBuildLoop
    \/ SampleQubo
    \/ SampleCqm
    \/ SampleQuboFails
    \/ SampleCqmFails
    \/ InterpretPartition
    \/ InterpretMaxCut
    \/ InterpretKnapsack

Spec == Init /\ [][Next]_vars

\* The partitioning encoder alone, on every graph of up to MaxEncodeNodes
\* nodes and on the edge-free graphs of up to MaxPenaltyNodes nodes.
InitEncode ==
    /\ variant = "partition"
    /\ \/ \E n \in 2..MaxEncodeNodes : G \in RandomGraphs(n)
       \/ \E n \in 1..MaxPenaltyNodes : G = EdgelessGraph(n)
    /\ gamma \in 1..MaxGamma
    /\ items = NoItems
    /\ pc = "edges"
    /\ Fresh

NextEncode == PartitionEdgeLoop \/ PartitionNodeLoop \/ PartitionPairLoop

SpecEncode == InitEncode /\ [][NextEncode]_vars

\* The partitioning section on paths of up to MaxSizeNodes nodes, the sampler
\* returning one record whose sample has its ones on the first nodes.
InitSize ==
    /\ variant = "partition"
    /\ \E n \in 1..MaxSizeNodes : G = PathGraph(n)
    /\ gamma = 1
    /\ items = NoItems
    /\ pc = "edges"
    /\ Fresh

SampleQuboOnesFirst ==
    /\ variant = "partition" /\ pc = "sample"
    /\ \E ones \in 0..Len(G.nodes) :
         LET x == [v \in Variables(Q) |-> IF v < ones THEN 1 ELSE 0]
         IN  response' = <<[sample |-> x, energy |-> Energy(Q, x)]>>
    /\ calls' = calls + 1
    /\ pc' = "interpret"
    /\ UNCHANGED <<variant, G, gamma, items, Q, cqm, k, out>>

NextSize ==
    \/ PartitionEdgeLoop
    \/ PartitionNodeLoop
    \/ PartitionPairLoop
    \/ SampleQuboOnesFirst
    \/ InterpretPartition

SpecSize == InitSize /\ [][NextSize]_vars

\* ------------------------------------------------- graphs from edge lists
\* s with v appended unless it is there already (a dict keeps first insertion).
AppendNew(s, v) == IF v \in Range(s) THEN s ELSE Append(s, v)

RECURSIVE NodesOf(_, _)
\* G.nodes after add_edges_from of the first j edges of el: the endpoints in
\* the order of their first appearance.
NodesOf(el, j) ==
    IF j = 0 THEN <<>>
    ELSE AppendNew(AppendNew(NodesOf(el, j - 1), el[j][1]), el[j][2])

RECURSIVE AdjOf(_, _, _)
\* G.adj[n] after the first j edges of el: the neighbours of n in the order
\* in which their edges were added.
AdjOf(el, n, j) ==
    IF j = 0 THEN <<>>
    ELSE LET a == AdjOf(el, n, j - 1)
         IN  IF el[j][1] = n THEN AppendNew(a, el[j][2])
             ELSE IF el[j][2] = n THEN AppendNew(a, el[j][1])
             ELSE a

RECURSIVE EdgesOf(_, _, _)
\* G.edges restricted to the first i nodes: each node in turn reports the
\* edges to its neighbours that have not reported yet.
EdgesOf(el, nodes, i) ==
    IF i = 0 THEN <<>>
    ELSE LET n == nodes[i]
             earlier == {nodes[j] : j \in 1..(i - 1)}
             nbrs == SelectSeq(AdjOf(el, n, Len(el)), LAMBDA v : v \notin earlier)
         IN  EdgesOf(el, nodes, i - 1) \o [j \in 1..Len(nbrs) |-> <<n, nbrs[j]>>]

\* G = nx.Graph(); G.add_edges_from(el)
add_edges_from(el) ==
    LET nodes == NodesOf(el, Len(el))
    IN  [nodes |-> nodes, edges |-> EdgesOf(el, nodes, Len(nodes))]

\* The edge lists of up to MaxListEdges edges between nodes 1..MaxListNodes, in
\* any order and orientation.
EdgeLists ==
    LET pairs == {p \in (1..MaxListNodes) \X (1..MaxListNodes) : p[1] # p[2]}
    IN  UNION {[1..L -> pairs] : L \in 1..MaxListEdges}

\* The max-cut section on a graph built from any edge list.
InitMaxCutAny ==
    /\ variant = "maxcut"
    /\ G \in {add_edges_from(el) : el \in EdgeLists}
    /\ gamma = 0
    /\ items = NoItems
    /\ pc = "edges"
    /\ Fresh

\* The sampler returning a single record, any assignment of Q's variables.
SampleQuboSingle ==
    /\ variant = "maxcut" /\ pc = "sample"
    /\ \E x \in Assignments(Variables(Q)) :
          response' = <<[sample |-> x, energy |-> Energy(Q, x)]>>
    /\ calls' = calls + 1
    /\ pc' = "interpret"
    /\ UNCHANGED <<variant, G, gamma, items, Q, cqm, k, out>>

\* The max-cut section on the graphs built from edge lists.
NextMaxCut == MaxCutEdgeLoop \/ SampleQuboSingle \/ InterpretMaxCut

SpecMaxCut == InitMaxCutAny /\ [][NextMaxCut]_vars

\* ------------------------------------------------ the hand-written Q matrix
\* The assignments Q[key] = value of the getting-started cell, in order.
GettingStartedStatements ==
    << <<<<1, 1>>, -2>>, <<<<2, 2>>, -2>>, <<<<1, 2>>, 2>>, <<<<3, 3>>, -3>>,
       <<<<1, 3>>, 2>>, <<<<4, 4>>, -3>>, <<<<2, 4>>, 2>>, <<<<3, 4>>, 2>>,
       <<<<5, 5>>, -2>>, <<<<3, 5>>, 2>>, <<<<4, 5>>, 2>> >>

\* Q[key] = v: a plain assignment, replacing what the key held.
SetItem(Qm, key, v) == (key :> v) @@ Qm

InitGettingStarted ==
    /\ variant = "getting_started"
    /\ G = NoGraph
    /\ gamma = 0
    /\ items = NoItems
    /\ pc = "assign"
    /\ Fresh

\* The next assignment statement of the getting-started cell.
GettingStartedAssign ==
    /\ variant = "getting_started" /\ pc = "assign"
    /\ IF k <= Len(GettingStartedStatements)
       THEN /\ Q' = SetItem(Q, GettingStartedStatements[k][1],
                            GettingStartedStatements[k][2])
            /\ k' = k + 1
            /\ pc' = pc
       ELSE /\ Q' = Q
            /\ k' = 1
            /\ pc' = "sample"
    /\ UNCHANGED <<variant, G, gamma, items, cqm, calls, response, out>>

\* ------------------------------------------------- running a cell again
\* The rebinding that leaves the map of the previous execution in place.
NewMapKeepOld(Qm) == Qm

\* Q = defaultdict(int): Q is bound to a new empty map, whatever it held.
NewMap(Qm) == EmptyMap

\* The QUBO cell is executed a second time on the same G and gamma; out keeps
\* the map the first execution left, for comparison.
RerunCell ==
    /\ pc = "sample" /\ out = NoOutput
    /\ out' = [kind |-> "map", Q |-> Q]
    /\ Q' = NewMap(Q)
    /\ k' = 1
    /\ pc' = IF variant = "getting_started" THEN "assign" ELSE "edges"
    /\ UNCHANGED <<variant, G, gamma, items, cqm, calls, response>>

\* The partitioning QUBO cell on a random graph, for any penalty weight.
InitPartitionAnyGamma ==
    /\ variant = "partition"
    /\ \E n \in 2..MaxNodes : G \in RandomGraphs(n)
    /\ gamma \in 1..MaxGamma
    /\ items = NoItems
    /\ pc = "edges"
    /\ Fresh

\* The three encoders, each run twice.
InitBuild == InitPartitionAnyGamma \/ InitMaxCutAny \/ InitGettingStarted

NextBuild ==
    \/ PartitionEdgeLoop
    \/ PartitionNodeLoop
    \/ PartitionPairLoop
    \/ MaxCutEdgeLoop
    \/ GettingStartedAssign
    \/ RerunCell

SpecBuild == InitBuild /\ [][NextBuild]_vars

\* ------------------------------------------------------- other orders
\* All the orders in which the elements of the sequence s can be taken.
Orderings(s) ==
    LET n == Len(s)
        bijections == {p \in [1..n -> 1..n] : \A i, j \in 1..n : p[i] = p[j] => i = j}
    IN  {[i \in 1..n |-> s[p[i]]] : p \in bijections}

\* The same graph with G.edges reporting the edges in another order.
Reordered(g) == {[nodes |-> g.nodes, edges |-> es] : es \in Orderings(g.edges)}

\* The partitioning QUBO cell with its three loops in any order and the edges
\* in any order; pc holds the order of the loops and the loop being run.
InitOrderPartition ==
    /\ variant = "partition"
    /\ \E n \in 2..MaxNodes : \E g \in RandomGraphs(n) : G \in Reordered(g)
    /\ gamma \in {1, MaxGamma}
    /\ items = NoItems
    /\ \E order \in Orderings(<<"edges", "nodes", "pairs">>) :
          pc = [order |-> order, at |-> 1]
    /\ Fresh

\* The max-cut QUBO cell with the edges in any order.
InitOrderMaxCut ==
    /\ variant = "maxcut"
    /\ \E el \in EdgeLists : G \in Reordered(add_edges_from(el))
    /\ gamma = 0
    /\ items = NoItems
    /\ pc = "edges"
    /\ Fresh

InitOrder == InitOrderPartition \/ InitOrderMaxCut

\* One iteration, or the exit, of the loop of the partitioning cell that is
\* being run.
ReorderedPartitionLoop ==
    /\ variant = "partition" /\ pc.at <= Len(pc.order)
    /\ LET loop == pc.order[pc.at]
           len == CASE loop = "edges" -> Len(G.edges)
                    [] loop = "nodes" -> Len(G.nodes)
                    [] loop = "pairs" -> Len(combinations(G.nodes))
       IN  IF k <= len
           THEN /\ Q' = CASE loop = "edges" -> PartitionEdgeStep(Q, G.edges[k])
                            [] loop = "nodes" ->
                                 PartitionNodeStep(Q, G.nodes[k], gamma, Len(G.nodes))
                            [] loop = "pairs" ->
                                 PartitionPairStep(Q, combinations(G.nodes)[k], gamma)
                /\ k' = k + 1
                /\ pc' = pc
           ELSE /\ Q' = Q
                /\ k' = 1
                /\ pc' = [pc EXCEPT !.at = @ + 1]
    /\ UNCHANGED <<variant, G, gamma, items, cqm, calls, response, out>>

NextOrder == ReorderedPartitionLoop \/ MaxCutEdgeLoop

SpecOrder == InitOrder /\ [][NextOrder]_vars

RECURSIVE PartitionEdges(_, _, _)
\* The partitioning edge loop run over the first j edges.
PartitionEdges(Qm, edges, j) ==
    IF j = 0 THEN Qm
    ELSE PartitionEdgeStep(PartitionEdges(Qm, edges, j - 1), edges[j])

RECURSIVE PartitionNodes(_, _, _, _)
\* The partitioning node loop run over the first j nodes.
PartitionNodes(Qm, nodes, g, j) ==
    IF j = 0 THEN Qm
    ELSE PartitionNodeStep(PartitionNodes(Qm, nodes, g, j - 1), nodes[j], g, Len(nodes))

RECURSIVE PartitionPairs(_, _, _, _)
\* The partitioning pair loop run over the first j pairs.
PartitionPairs(Qm, pairs, g, j) ==
    IF j = 0 THEN Qm
    ELSE PartitionPairStep(PartitionPairs(Qm, pairs, g, j - 1), pairs[j], g)

\* The map the partitioning QUBO cell builds for graph g and weight gm.
PartitionQubo(g, gm) ==
    LET pairs == combinations(g.nodes)
    IN  PartitionPairs(
            PartitionNodes(PartitionEdges(EmptyMap, g.edges, Len(g.edges)),
                           g.nodes, gm, Len(g.nodes)),
            pairs, gm, Len(pairs))

RECURSIVE MaxCutEdges(_, _, _)
\* The max-cut edge loop run over the first j edges.
MaxCutEdges(Qm, edges, j) ==
    IF j = 0 THEN Qm
    ELSE MaxCutEdgeStep(MaxCutEdges(Qm, edges, j - 1), edges[j])

\* The map the max-cut QUBO cell builds for graph g.
MaxCutQubo(g) == MaxCutEdges(EmptyMap, g.edges, Len(g.edges))

\* ------------------------------------------------- the two graph encoders
\* The partitioning QUBO cell on the random and edge-free graphs, and the
\* max-cut QUBO cell on the graphs built from edge lists.
InitEncoders == InitEncode \/ InitMaxCutAny

NextEncoders ==
    \/ PartitionEdgeLoop
    \/ PartitionNodeLoop
    \/ PartitionPairLoop
    \/ MaxCutEdgeLoop

SpecEncoders == InitEncoders /\ [][NextEncoders]_vars

\* ------------------------------------------- partitioning, any weight
\* The sampler returning a single record, any assignment of the nodes: the
\* partitioning cell reads record 0 only.
SampleQuboRecordZero ==
    /\ variant = "partition" /\ pc = "sample"
    /\ \E x \in Assignments(Variables(Q)) :
          response' = <<[sample |-> x, energy |-> Energy(Q, x)]>>
    /\ calls' = calls + 1
    /\ pc' = "interpret"
    /\ UNCHANGED <<variant, G, gamma, items, Q, cqm, k, out>>

NextPenalty ==
    \/ PartitionEdgeLoop
    \/ PartitionNodeLoop
    \/ PartitionPairLoop
    \/ SampleQuboRecordZero
    \/ InterpretPartition

\* The partitioning section on a random graph for any penalty weight.
SpecPenalty == InitPartitionAnyGamma /\ [][NextPenalty]_vars

\* ------------------------------------------------------- the toy problem
\* The cell with the quadratic penalty term stored once instead of twice.
ToyStatementsHalfCoupling(A) ==
    << <<<<1, 1>>, 1 - A>>, <<<<2, 2>>, 1 - A>>, <<<<3, 3>>, 1>>, <<<<1, 2>>, A>> >>

\* The cell with the linear penalty terms left out of the diagonal.
ToyStatementsNoLinearPenalty(A) ==
    << <<<<1, 1>>, 1>>, <<<<2, 2>>, 1>>, <<<<3, 3>>, 1>>, <<<<1, 2>>, 2 * A>> >>

\* The assignments of the toy cell, in order, for penalty weight A:
\* Q[(1,1)]=1-A; Q[(2,2)]=1-A; Q[(3,3)]=1; Q[(1,2)]=2*A (1, 2, 3 are v, w, t).
ToyStatements(A) ==
    << <<<<1, 1>>, 1 - A>>, <<<<2, 2>>, 1 - A>>, <<<<3, 3>>, 1>>, <<<<1, 2>>, 2 * A>> >>

\* The toy cell for any penalty weight A up to MaxPenalty (held in gamma).
InitToy ==
    /\ variant = "toy"
    /\ G = NoGraph
    /\ gamma \in 1..MaxPenalty
    /\ items = NoItems
    /\ pc = "assign"
    /\ Fresh

\* The next assignment statement of the toy cell.
ToyAssign ==
    /\ variant = "toy" /\ pc = "assign"
    /\ IF k <= Len(ToyStatements(gamma))
       THEN /\ Q' = SetItem(Q, ToyStatements(gamma)[k][1], ToyStatements(gamma)[k][2])
            /\ k' = k + 1
            /\ pc' = pc
       ELSE /\ Q' = Q
            /\ k' = 1
            /\ pc' = "sample"
    /\ UNCHANGED <<variant, G, gamma, items, cqm, calls, response, out>>

\* sampleset = sampler.sample_qubo(Q, num_reads = 100) on the simulated
\* annealer: any non-empty list of assignments of v, w, t with their energies.
SampleQuboToy ==
    /\ variant = "toy" /\ pc = "sample"
    /\ LET record == [x \in Assignments(Variables(Q)) |->
                        [sample |-> x, energy |-> Energy(Q, x)]]
       IN  \E L \in 1..MaxReads :
             \E xs \in [1..L -> DOMAIN record] :
                response' = [r \in 1..L |-> record[xs[r]]]
    /\ calls' = calls + 1
    /\ pc' = "interpret"
    /\ UNCHANGED <<variant, G, gamma, items, Q, cqm, k, out>>

\* result = sampleset.first.sample; print(result)
InterpretToy ==
    /\ variant = "toy" /\ pc = "interpret"
    /\ out' = [kind |-> "result", result |-> First(response).sample]
    /\ pc' = "done"
    /\ UNCHANGED <<variant, G, gamma, items, Q, cqm, k, calls, response>>

NextToy == ToyAssign \/ SampleQuboToy \/ InterpretToy

SpecToy == InitToy /\ [][NextToy]_vars

\* ------------------------------------------------------------ properties
\* The nodes of G, the number of ones of an assignment, and the edges of a
\* graph whose endpoints an assignment puts in different subsets.
NodeSet == Range(G.nodes)
Ones(x) == Cardinality({v \in DOMAIN x : x[v] = 1})
CutEdges(edges, x) == {j \in DOMAIN edges : x[edges[j][1]] # x[edges[j][2]]}

\* The partitioning map holds the objective only: the edge loop is over and
\* no penalty term has been added yet.
ObjectiveOnly == variant = "partition" /\ pc = "nodes" /\ k = 1

\* C1: for every graph and every binary assignment, the energy of the
\* objective-only part of the partitioning map (what the edge loop
\* accumulates) equals the sum over the edges of x_u + x_v - 2*x_u*x_v,
\* which is the number of cut edges.
C1_ObjectiveEnergyIsCutCount ==
    ObjectiveOnly =>
        \A x \in Assignments(NodeSet) :
            /\ Energy(Q, x) = CountCut(G.edges, x, Len(G.edges))
            /\ Energy(Q, x) = Cardinality(CutEdges(G.edges, x))

C1_Witness ==
    /\ ObjectiveOnly
    /\ Len(G.edges) >= 3
    /\ \E x \in Assignments(NodeSet) : Energy(Q, x) = 3

\* The partitioning map of an edge-free graph, complete: it holds the size
\* penalty only.
PenaltyOnly == variant = "partition" /\ pc = "sample" /\ Len(G.edges) = 0

\* C2 as stated: for n = 4, 5, 6 and gamma > 0 the encoded size penalty is
\* exactly 0 when sum(x) = n/2 and positive otherwise.
C2_PenaltyZeroWhenBalanced ==
    (PenaltyOnly /\ Len(G.nodes) \in {4, 5, 6}) =>
        \A x \in Assignments(NodeSet) :
            IF 2 * Ones(x) = Len(G.nodes) THEN Energy(Q, x) = 0
            ELSE Energy(Q, x) > 0

\* C2 amended: the encoded size penalty is gamma*(s*s - n*s) for s = sum(x),
\* the square gamma*(s - n/2)^2 without its constant gamma*n*n/4; it equals
\* -gamma*n*n/4 exactly when sum(x) = n/2 and is strictly larger otherwise.
C2_PenaltyShiftedByConstant ==
    PenaltyOnly =>
        \A x \in Assignments(NodeSet) :
            LET n == Len(G.nodes)
                s == Ones(x)
                E == Energy(Q, x)
            IN  /\ E = gamma * (s * s - n * s)
                /\ 4 * E + gamma * n * n = gamma * (2 * s - n) * (2 * s - n)
                /\ IF 2 * s = n THEN 4 * E = 0 - gamma * n * n
                   ELSE 4 * E > 0 - gamma * n * n

C2_Witness ==
    /\ PenaltyOnly
    /\ Len(G.nodes) = 4
    /\ \E x \in Assignments(NodeSet) : Ones(x) = 2 /\ Energy(Q, x) = 0 - 4 * gamma

\* The coefficient map the max-cut encoder is to produce for the 5-node graph.
ReferenceMap ==
    [key \in {<<1, 1>>, <<2, 2>>, <<1, 2>>, <<3, 3>>, <<1, 3>>, <<4, 4>>,
              <<2, 4>>, <<3, 4>>, <<5, 5>>, <<3, 5>>, <<4, 5>>} |->
        IF key[1] # key[2] THEN 2
        ELSE IF key[1] \in {3, 4} THEN -3 ELSE -2]

\* The max-cut map is complete.
MaxCutEncoded == variant = "maxcut" /\ pc # "edges"

\* C3: for the 5-node graph the max-cut edge loop, started from an empty
\* map, produces exactly the reference coefficient map, with no other key,
\* and that map is the hand-written Q of the getting-started notebook.
C3_MaxCutMapIsReference ==
    MaxCutEncoded =>
        /\ DOMAIN Q = DOMAIN ReferenceMap
        /\ \A key \in DOMAIN Q : Q[key] = ReferenceMap[key]
        /\ Q = GettingStartedQ

C3_Witness == MaxCutEncoded /\ pc = "sample" /\ Cardinality(DOMAIN Q) = 11

\* C4: for the 5-node max-cut instance the minimum energy over the 32
\* assignments is -5, every minimum-energy assignment cuts exactly 5 of the
\* 6 edges, and no assignment cuts 6; a printed row of energy -5 shows cut
\* size 5.
C4_MaxCutOptimumIsFive ==
    /\ (variant = "maxcut" /\ pc = "sample") =>
          /\ Cardinality(Assignments(NodeSet)) = 32
          /\ \A x \in Assignments(NodeSet) :
                /\ Energy(Q, x) >= -5
                /\ Energy(Q, x) = -5 => Cardinality(CutEdges(G.edges, x)) = 5
                /\ Cardinality(CutEdges(G.edges, x)) # 6
          /\ \E x \in Assignments(NodeSet) : Energy(Q, x) = -5
    /\ (variant = "maxcut" /\ pc = "done") =>
          /\ First(response).energy >= -5
          /\ \A i \in DOMAIN out.rows :
                out.rows[i].E = -5 =>
                    /\ out.rows[i].cut_size = 5
                    /\ \A j \in DOMAIN out.rows : out.rows[i].E <= out.rows[j].E

C4_Witness ==
    /\ variant = "maxcut" /\ pc = "done"
    /\ Len(out.rows) = 2
    /\ out.rows[1].E = -5 /\ out.rows[1].cut_size = 5
    /\ out.rows[2].E > -5
    /\ Len(out.cut_edges) = 5

\* The indicator vector of a set S of knapsack items.
Indicator(S) == [i \in DOMAIN items.values |-> IF i \in S THEN 1 ELSE 0]

\* C5: the knapsack objective has the linear coefficient -values[i] for each
\* item and nothing else, so for every subset of the items its value at the
\* subset's indicator vector is minus the subset's total value.
C5_KnapsackObjectiveIsMinusValue ==
    (variant = "knapsack" /\ pc = "sample") =>
        /\ DOMAIN cqm.obj = DOMAIN items.values
        /\ \A i \in DOMAIN cqm.obj : cqm.obj[i] = 0 - items.values[i]
        /\ \A S \in SUBSET DOMAIN items.values :
              ObjectiveEnergy(cqm.obj, Indicator(S)) = 0 - SumFun(items.values, S)

C5_Witness ==
    /\ variant = "knapsack" /\ pc = "sample"
    /\ Cardinality(DOMAIN items.values) = 2
    /\ items.values[0] # items.values[1]
    /\ ObjectiveEnergy(cqm.obj, Indicator({0, 1})) = -3

\* The partitioning section has printed its verdict on record 0.
PartitionDone == variant = "partition" /\ pc = "done"
KnapsackDone == variant = "knapsack" /\ pc = "done"
MaxCutDone == variant = "maxcut" /\ pc = "done"

\* The sample splits n nodes into two subsets whose sizes differ by at most 1.
Balanced(x, n) == 2 * Ones(x) - n \in {-1, 0, 1}

\* C6: the partitioning interpreter accepts the sample exactly when its
\* number of ones is floor(n/2) or ceil(n/2): with 41 nodes it accepts 20
\* and 21 and rejects 19 and 22, and with an even n it accepts n/2 only.
C6_SizeCheckAcceptsHalves ==
    PartitionDone =>
        LET n == Len(G.nodes)
            s == Ones(response[1].sample)
            accepted == out.kind = "valid"
        IN  /\ accepted <=> Balanced(response[1].sample, n)
            /\ (n = 41 /\ s \in {20, 21}) => accepted
            /\ (n = 41 /\ s \in {19, 22}) => ~accepted
            /\ (n % 2 = 0 /\ accepted) => 2 * s = n

C6_Witness ==
    /\ PartitionDone
    /\ Len(G.nodes) = 41
    /\ Ones(response[1].sample) = 21
    /\ out.kind = "valid"

\* What knapsack_dwave raises when nothing is feasible.
NoFeasibleError ==
    [kind |-> "raise", error |-> "ValueError", message |-> "No feasible solution found"]

\* C7: if no record of the sample set is flagged feasible, knapsack_dwave
\* fails with the error "No feasible solution found": it returns no
\* selection, weight, value or energy, and the sampler has been invoked
\* once only.
C7_NoFeasibleRaises ==
    /\ variant = "knapsack" => calls <= 1
    /\ (KnapsackDone /\ \A i \in DOMAIN response : ~response[i].is_feasible) =>
          /\ out = NoFeasibleError
          /\ calls = 1

C7_Witness ==
    /\ KnapsackDone
    /\ Len(response) = 2
    /\ \A i \in DOMAIN response : ~response[i].is_feasible
    /\ out.kind = "raise"

\* C8: if at least one record is flagged feasible, the record knapsack_dwave
\* selects is one of the returned records, is flagged feasible and has
\* energy at most that of every feasible record, also when an infeasible
\* record has strictly lower energy.
C8_FeasibleMinimumSelected ==
    (KnapsackDone /\ \E i \in DOMAIN response : response[i].is_feasible) =>
        /\ out.kind = "return"
        /\ out.best \in Range(response)
        /\ out.best.is_feasible
        /\ \A i \in DOMAIN response :
              response[i].is_feasible => out.best.energy <= response[i].energy
        /\ Range(out.selected_items) = {v \in DOMAIN out.best.sample : out.best.sample[v] = 1}

C8_Witness ==
    /\ KnapsackDone
    /\ out.kind = "return"
    /\ Len(out.selected_items) >= 1
    /\ Len(response) = 2
    /\ \E i \in DOMAIN response :
          ~response[i].is_feasible /\ response[i].energy < out.best.energy

\* C9: the partitioning interpreter reports one of two outcomes for record
\* 0: "Invalid partition" and no cut-edge count if the size constraint is
\* violated, else "Valid partition" with the count recomputed from the
\* sample, which is the number of edges with endpoints in different subsets.
C9_PartitionVerdict ==
    PartitionDone =>
        LET sample == response[1].sample
        IN  /\ out.kind \in {"valid", "invalid"}
            /\ ~Balanced(sample, Len(G.nodes)) => out = [kind |-> "invalid"]
            /\ Balanced(sample, Len(G.nodes)) =>
                  /\ out.kind = "valid"
                  /\ DOMAIN out = {"kind", "num_cut_edges"}
                  /\ out.num_cut_edges = Cardinality(CutEdges(G.edges, sample))

C9_Witness ==
    /\ PartitionDone
    /\ out.kind = "valid"
    /\ out.num_cut_edges = 2
    /\ Len(G.edges) = 3

\* The assignment a printed max-cut row shows as Set 0 and Set 1.
RowSample(row) == [v \in NodeSet |-> IF v \in Range(row.S1) THEN 1 ELSE 0]

\* C10: no run reports a wrong value as a valid result.  A partition is
\* reported valid only if record 0 is balanced, with its true number of cut
\* edges; every printed max-cut row shows a returned sample with its true
\* cut size, and the final split is that of a lowest-energy record; a
\* knapsack selection is returned only if it is a returned record within
\* the capacity, with its true weight and value.  Otherwise the outcome is
\* the explicit "Invalid partition" or "No feasible solution found".
C10_NoSilentWrongResult ==
    /\ PartitionDone =>
          IF out.kind = "valid"
          THEN /\ Balanced(response[1].sample, Len(G.nodes))
               /\ out.num_cut_edges = Cardinality(CutEdges(G.edges, response[1].sample))
          ELSE out = [kind |-> "invalid"]
    /\ MaxCutDone =>
          /\ Len(out.rows) = Len(response)
          /\ \A i \in DOMAIN out.rows :
                LET row == out.rows[i]
                IN  /\ Range(row.S0) \cup Range(row.S1) = NodeSet
                    /\ Range(row.S0) \cap Range(row.S1) = {}
                    /\ \E j \in DOMAIN response : response[j].sample = RowSample(row)
                    /\ row.cut_size = Cardinality(CutEdges(G.edges, RowSample(row)))
          /\ \E j \in DOMAIN response :
                /\ response[j].sample = out.lut
                /\ \A i \in DOMAIN response : response[j].energy <= response[i].energy
          /\ Len(out.cut_edges) = Cardinality(CutEdges(G.edges, out.lut))
    /\ KnapsackDone =>
          IF out.kind = "return"
          THEN LET S == Range(out.selected_items)
               IN  /\ \E j \in DOMAIN response : response[j].sample = Indicator(S)
                   /\ out.total_weight = SumFun(items.weights, S)
                   /\ out.total_weight <= items.max_weight
                   /\ out.total_value = SumFun(items.values, S)
                   /\ out.best_solution_energy = 0 - out.total_value
          ELSE out = NoFeasibleError

\* The penalty weight is too small: a minimum-energy assignment of the map
\* breaks the size constraint, the sampler returns it, and the outcome is
\* the explicit "Invalid partition".
C10_Witness ==
    /\ PartitionDone
    /\ Len(G.edges) >= 1
    /\ \A x \in Assignments(NodeSet) : response[1].energy <= Energy(Q, x)
    /\ out = [kind |-> "invalid"]

\* The QUBO cell has run twice on the same instance: out holds the first map,
\* Q the second.
EncodedTwice == pc = "sample" /\ out # NoOutput

Coefficient(Qm, key) == IF key \in DOMAIN Qm THEN Qm[key] ELSE 0

\* The terms one edge contributes: d on both diagonal entries, o on the pair.
EdgeTerms(e, d, o) ==
    << <<<<e[1], e[1]>>, d>>, <<<<e[2], e[2]>>, d>>, <<<<e[1], e[2]>>, o>> >>

RECURSIVE TermsOfEdges(_, _, _, _)
TermsOfEdges(edges, j, d, o) ==
    IF j = 0 THEN <<>>
    ELSE TermsOfEdges(edges, j - 1, d, o) \o EdgeTerms(edges[j], d, o)

\* How many iterations of the loop named l the cell has completed.
Completed(l, order, len) ==
    LET at == CHOOSE i \in DOMAIN order : order[i] = l
        now == IF pc \in Range(order)
               THEN CHOOSE i \in DOMAIN order : order[i] = pc
               ELSE Len(order) + 1
    IN  IF at < now THEN len ELSE IF at = now THEN k - 1 ELSE 0

\* The terms (pair, amount) the statements executed so far have added, in order.
TermsSoFar ==
    CASE variant = "partition" ->
            LET order == <<"edges", "nodes", "pairs">>
                pairs == combinations(G.nodes)
                n == Len(G.nodes)
            IN  TermsOfEdges(G.edges, Completed("edges", order, Len(G.edges)), 1, -2)
                \o [i \in 1..Completed("nodes", order, n) |->
                        <<<<G.nodes[i], G.nodes[i]>>, gamma * (1 - n)>>]
                \o [i \in 1..Completed("pairs", order, Len(pairs)) |->
                        <<pairs[i], 2 * gamma>>]
      [] variant = "maxcut" ->
            TermsOfEdges(G.edges, Completed("edges", <<"edges">>, Len(G.edges)), -1, 2)
      [] variant = "getting_started" ->
            SubSeq(GettingStartedStatements, 1,
                   Completed("assign", <<"assign">>, Len(GettingStartedStatements)))

RECURSIVE SumOfFirstTerms(_, _, _)
SumOfFirstTerms(terms, key, j) ==
    IF j = 0 THEN 0
    ELSE SumOfFirstTerms(terms, key, j - 1)
         + (IF terms[j][1] = key THEN terms[j][2] ELSE 0)

\* The sum of the terms added for one pair.
SumOfTerms(terms, key) == SumOfFirstTerms(terms, key, Len(terms))

\* Every pair of labels a term may be added for.
AllPairs ==
    LET labels == IF variant = "getting_started" THEN 1..5 ELSE NodeSet
    IN  labels \X labels

\* C12: at every point of the construction of a coefficient map the
\* coefficient stored for a pair is the sum of all the terms added so far for
\* that pair, no term having replaced an earlier one, and a pair for which no
\* term has been added has no entry, hence coefficient 0.
C12_CoefficientsAccumulate ==
    LET terms == TermsSoFar
    IN  \A key \in AllPairs :
            /\ Coefficient(Q, key) = SumOfTerms(terms, key)
            /\ key \in DOMAIN Q <=> \E i \in DOMAIN terms : terms[i][1] = key
            /\ key \notin DOMAIN Q => Coefficient(Q, key) = 0

C12_Witness ==
    /\ variant = "partition" /\ pc = "pairs" /\ k >= 2
    /\ \E key \in DOMAIN Q :
          /\ Cardinality({i \in DOMAIN TermsSoFar : TermsSoFar[i][1] = key}) >= 3
          /\ Q[key] = SumOfTerms(TermsSoFar, key)
    /\ \E key \in AllPairs : key \notin DOMAIN Q

RECURSIVE SortedPairs(_)
\* The pairs of the set S in lexicographic order.
SortedPairs(S) ==
    IF S = {} THEN <<>>
    ELSE LET m == CHOOSE m \in S :
                    \A y \in S : m[1] < y[1] \/ (m[1] = y[1] /\ m[2] <= y[2])
         IN  <<m>> \o SortedPairs(S \ {m})

\* G with its edges in lexicographic order: one fixed order to compare with.
Canonical == [nodes |-> G.nodes, edges |-> SortedPairs(Range(G.edges))]

\* The reordered construction is over.
OrderDone ==
    IF variant = "partition" THEN pc.at = Len(pc.order) + 1 ELSE pc = "sample"

\* C13: the final coefficient map does not depend on the insertion order:
\* with the edges processed in any permutation, and the three partitioning
\* loops run in any order, every pair gets the coefficient that the cell
\* as written gives it for the edges in one fixed order.
C13_OrderIrrelevant ==
    OrderDone =>
        LET ref == IF variant = "partition" THEN PartitionQubo(Canonical, gamma)
                   ELSE MaxCutQubo(Canonical)
        IN  /\ DOMAIN Q = DOMAIN ref
            /\ \A key \in AllPairs : Coefficient(Q, key) = Coefficient(ref, key)

C13_Witness ==
    /\ variant = "partition"
    /\ OrderDone
    /\ pc.order = <<"pairs", "nodes", "edges">>
    /\ Len(G.edges) = 3
    /\ G.edges[1][1] > G.edges[3][1]
    /\ gamma = MaxGamma

\* The positions of a section before, and after, its sampler call.
Building == pc \in {"edges", "nodes", "pairs", "build", "sample"}
Sampled == pc \in {"interpret", "done", "failed"}

\* The energies of the returned records are those of the map, or model, as it
\* stands: the sampler was given that map.
SampledThisMap ==
    \A i \in DOMAIN response :
        IF variant = "knapsack"
        THEN /\ DOMAIN response[i].sample = DOMAIN cqm.obj
             /\ response[i].energy = ObjectiveEnergy(cqm.obj, response[i].sample)
        ELSE /\ DOMAIN response[i].sample = Variables(Q)
             /\ response[i].energy = Energy(Q, response[i].sample)

\* C14: in every run all the writes to the coefficient map come before the
\* sampler call, the sampler is invoked exactly once, with that map, also
\* when the result turns out invalid or infeasible, and the interpretation
\* that follows writes neither to the map nor to the problem instance.
C14_BuildSampleOnceInterpret ==
    /\ [](Building => calls = 0)
    /\ [](Sampled => calls = 1)
    /\ [](pc \in {"interpret", "done"} => Len(response) >= 1)
    /\ [](pc = "interpret" => SampledThisMap)
    /\ [][/\ (Q' # Q \/ cqm' # cqm) => (calls = 0 /\ calls' = 0 /\ pc # "sample")
          /\ calls' # calls => (pc = "sample" /\ calls' = calls + 1)
          /\ Sampled => UNCHANGED <<Q, cqm, G, gamma, items, calls, response>>
          /\ UNCHANGED <<variant, G, gamma, items>>]_vars

C14_Witness ==
    /\ variant = "partition" /\ pc = "done"
    /\ out = [kind |-> "invalid"]
    /\ calls = 1
    /\ Cardinality(DOMAIN Q) = 6
    /\ SampledThisMap

\* C15: if the sampling backend fails, its error is what the run ends with:
\* the sampler is not called again, no sample set exists, nothing is
\* interpreted, so neither verdict on a partition is reported and
\* knapsack_dwave returns no tuple; a verdict or a returned tuple exists only
\* after a sampler call that returned records.
C15_BackendErrorPropagates ==
    /\ pc = "failed" =>
          /\ out.kind = "raise"
          /\ DOMAIN out = {"kind", "error"}
          /\ out.error \in BackendErrors
          /\ calls = 1
          /\ response = <<>>
          /\ ~ENABLED Next
    /\ out.kind \in {"valid", "invalid", "table", "return"} =>
          (pc = "done" /\ Len(response) >= 1)
    /\ (out.kind = "raise" /\ pc = "done") => out = NoFeasibleError

C15_Witness ==
    /\ pc = "failed"
    /\ variant = "knapsack"
    /\ out = [kind |-> "raise", error |-> "connection lost"]
    /\ Cardinality(DOMAIN cqm.obj) = 2

\* x has the least energy of all the assignments of the variables of Qm.
MinEnergy(Qm, x) ==
    \A y \in Assignments(Variables(Qm)) : Energy(Qm, x) <= Energy(Qm, y)

\* C16: feasibility is independent of energy.  There are a graph and a
\* positive penalty weight for which a minimum-energy assignment of the
\* partitioning map has a subset size outside {floor(n/2), ceil(n/2)}, and
\* whenever record 0 is such a sample the interpreter reports "Invalid
\* partition".
C16_MinimumMayBeInvalid ==
    /\ (variant = "partition" /\ pc = "edges" /\ k = 1) =>
          \E n \in 2..MaxNodes : \E g \in RandomGraphs(n) : \E gm \in 1..MaxGamma :
             \E x \in Assignments(Range(g.nodes)) :
                MinEnergy(PartitionQubo(g, gm), x) /\ ~Balanced(x, n)
    /\ (PartitionDone /\ ~Balanced(response[1].sample, Len(G.nodes))) =>
          (out = [kind |-> "invalid"] \/ ~MinEnergy(Q, response[1].sample))

C16_Witness ==
    /\ PartitionDone
    /\ Len(G.nodes) = 3 /\ Len(G.edges) = 3
    /\ Ones(response[1].sample) = 3
    /\ MinEnergy(Q, response[1].sample)
    /\ Q = PartitionQubo(G, gamma)
    /\ out = [kind |-> "invalid"]

\* C17: for an odd number n of variables and gamma > 0 the encoded size
\* penalty (gamma*(1-n) on each diagonal entry, 2*gamma on each pair) takes
\* one and the same value at the subset sizes floor(n/2) and ceil(n/2), and
\* a strictly larger value at every other subset size.
C17_OddSizeSlack ==
    (PenaltyOnly /\ Len(G.nodes) % 2 = 1) =>
        LET n == Len(G.nodes)
            E == [x \in Assignments(NodeSet) |-> Energy(Q, x)]
            half == {x \in DOMAIN E : Ones(x) \in {Floor2(n), Ceil2(n)}}
        IN  /\ \A x, y \in half : E[x] = E[y]
            /\ \A x \in half : \A y \in DOMAIN E \ half : E[x] < E[y]
            /\ \A x \in half : gamma > 0 /\ 4 * E[x] = gamma * (1 - n * n)

C17_Witness ==
    /\ PenaltyOnly
    /\ Len(G.nodes) = 5
    /\ gamma = 2
    /\ \E x, y \in Assignments(NodeSet) :
          /\ Ones(x) = 2 /\ Ones(y) = 3
          /\ Energy(Q, x) = -12 /\ Energy(Q, y) = -12

\* The partitioning map is complete: objective and penalty merged.
PartitionEncoded == variant = "partition" /\ pc = "sample"

\* C18: for every graph on n nodes, weight gamma and assignment x with
\* k = sum(x), the energy of the merged partitioning map is
\* cut(x) + gamma*(k*k - n*k): the objective plus gamma times the expanded
\* constraint (k - n/2)^2 without its constant gamma*n*n/4.
C18_MergedEnergy ==
    PartitionEncoded =>
        \A x \in Assignments(NodeSet) :
            LET n == Len(G.nodes)
                kk == Ones(x)
                cut == Cardinality(CutEdges(G.edges, x))
            IN  /\ Energy(Q, x) = cut + gamma * (kk * kk - n * kk)
                /\ 4 * Energy(Q, x) + gamma * n * n
                      = 4 * cut + gamma * (2 * kk - n) * (2 * kk - n)

C18_Witness ==
    /\ PartitionEncoded
    /\ Len(G.nodes) = 4 /\ Len(G.edges) = 4
    /\ gamma = 3
    /\ \E x \in Assignments(NodeSet) :
          Ones(x) = 2 /\ Cardinality(CutEdges(G.edges, x)) = 4 /\ Energy(Q, x) = -8

\* C19: for every graph and every assignment the energy of the max-cut map
\* is minus the number of cut edges, so the "Cut Size" printed for a sample,
\* int(-1*E), is the number of edges (u, v) with lut[u] != lut[v] that the
\* interpreter collects in cut_edges for that sample.
C19_MaxCutEnergyIsMinusCut ==
    /\ (variant = "maxcut" /\ pc # "edges") =>
          \A x \in Assignments(NodeSet) :
             Energy(Q, x) = 0 - Cardinality(CutEdges(G.edges, x))
    /\ MaxCutDone =>
          /\ \A i \in DOMAIN out.rows :
                /\ out.rows[i].cut_size = 0 - out.rows[i].E
                /\ out.rows[i].cut_size
                      = Cardinality(CutEdges(G.edges, RowSample(out.rows[i])))
          /\ RowSample(out.rows[1]) = out.lut
          /\ out.rows[1].cut_size = Len(out.cut_edges)
          /\ Range(out.cut_edges) = {G.edges[j] : j \in CutEdges(G.edges, out.lut)}
          /\ Len(out.cut_edges) + Len(out.uncut_edges) = Len(G.edges)

C19_Witness ==
    /\ MaxCutDone
    /\ Len(G.edges) = 3 /\ Len(G.nodes) = 3
    /\ G.edges[3][1] > G.edges[3][2]
    /\ out.rows[1].E = -2
    /\ out.rows[1].cut_size = 2
    /\ Len(out.cut_edges) = 2

\* C20: the partitioning interpreter examines the best candidate: the sample
\* it takes, record 0 of the response, has energy at most that of every
\* other returned sample, so its verdict refers to a minimum-energy sample
\* of the returned set.
C20_RecordZeroIsMinimum ==
    (variant = "partition" /\ pc \in {"interpret", "done"}) =>
        \A i \in DOMAIN response : response[1].energy <= response[i].energy

\* The verdict "Invalid partition" on record 0 while a returned record of
\* strictly lower energy is a valid partition.
C20_Witness ==
    /\ PartitionDone
    /\ out = [kind |-> "invalid"]
    /\ \E i \in DOMAIN response :
          /\ response[i].energy < response[1].energy
          /\ Balanced(response[i].sample, Len(G.nodes))
          /\ response[i] = First(response)

\* The nodes an assignment puts in Set 1.
SetOne(x) == {v \in DOMAIN x : x[v] = 1}

\* The four subsets named as Set 1 of the best cuts of the 5-node graph.
MinimumSets == {{2, 3, 5}, {1, 4, 5}, {2, 3}, {1, 4}}

\* C21: for the 5-node reference Q (the map the max-cut loop builds, which is
\* the hand-written Q of the getting-started notebook) the minimum-energy
\* assignments are exactly the four with Set 1 equal to {2,3,5}, {1,4,5},
\* {2,3} or {1,4}, of energy -5; every other assignment has energy -4 or
\* higher.  So a printed row has energy -5 exactly when its Set 1 is one of
\* the four, and a best record of energy -5 splits the nodes that way.
C21_ReferenceMinimisers ==
    /\ (variant = "maxcut" /\ pc = "sample") =>
          \A x \in Assignments(Variables(Q)) :
             /\ Energy(GettingStartedQ, x) = Energy(Q, x)
             /\ IF SetOne(x) \in MinimumSets THEN Energy(Q, x) = -5
                ELSE Energy(Q, x) >= -4
    /\ MaxCutDone =>
          /\ \A i \in DOMAIN out.rows :
                out.rows[i].E = -5 <=> Range(out.rows[i].S1) \in MinimumSets
          /\ First(response).energy = -5 => Range(out.S1) \in MinimumSets

C21_Witness ==
    /\ MaxCutDone
    /\ Len(out.rows) = 2
    /\ out.rows[1].S1 = <<2, 3, 5>> /\ out.rows[1].E = -5
    /\ out.rows[2].S1 = <<1, 4>> /\ out.rows[2].E = -5
    /\ out.S1 = <<2, 3, 5>>

\* The toy map is complete.
ToyEncoded == variant = "toy" /\ pc = "sample"

\* C22: in the toy penalty problem, for penalty weight A and every binary
\* assignment of (v, w, t), the energy of the map the cell writes,
\* {(1,1): 1-A, (2,2): 1-A, (3,3): 1, (1,2): 2*A}, equals
\* v + w + t + A*(v + w - 1)^2 - A.
C22_ToyEnergyIsPenalisedObjective ==
    ToyEncoded =>
        /\ Q = (<<1, 1>> :> 1 - gamma) @@ (<<2, 2>> :> 1 - gamma) @@
               (<<3, 3>> :> 1) @@ (<<1, 2>> :> 2 * gamma)
        /\ \A x \in Assignments({1, 2, 3}) :
              LET v == x[1]
                  w == x[2]
                  t == x[3]
              IN  Energy(Q, x) =
                     v + w + t + gamma * (v + w - 1) * (v + w - 1) - gamma

C22_Witness ==
    /\ ToyEncoded
    /\ gamma = 4
    /\ Energy(Q, (1 :> 1) @@ (2 :> 1) @@ (3 :> 1)) = 3
    /\ Energy(Q, (1 :> 1) @@ (2 :> 0) @@ (3 :> 0)) = -3

\* The two assignments (v, w, t) = (1, 0, 0) and (0, 1, 0).
ToyMinimisers == {(1 :> 1) @@ (2 :> 0) @@ (3 :> 0), (1 :> 0) @@ (2 :> 1) @@ (3 :> 0)}

\* C23: in the toy problem with A = 4 the minimum-energy assignments of the
\* map are exactly (v,w,t) = (1,0,0) and (0,1,0), both of energy -3; each
\* satisfies v + w = 1 and has t = 0; a printed lowest-energy sample that
\* attains the minimum is one of the two, (1,0,0) being the one reported.
C23_ToyMinimisersAreFeasible ==
    /\ (ToyEncoded /\ gamma = 4) =>
          /\ \A x \in Assignments(Variables(Q)) :
                IF x \in ToyMinimisers THEN Energy(Q, x) = -3 ELSE Energy(Q, x) > -3
          /\ \A x \in Assignments(Variables(Q)) :
                (\A y \in Assignments(Variables(Q)) : Energy(Q, x) <= Energy(Q, y)) =>
                    x[1] + x[2] = 1 /\ x[3] = 0
    /\ (variant = "toy" /\ pc = "done" /\ gamma = 4) =>
          /\ \A i \in DOMAIN response : First(response).energy <= response[i].energy
          /\ out.result = First(response).sample
          /\ First(response).energy >= -3
          /\ First(response).energy = -3 => out.result \in ToyMinimisers

C23_Witness ==
    /\ variant = "toy" /\ pc = "done" /\ gamma = 4
    /\ Len(response) = 2
    /\ response[1].energy > -3
    /\ out.result = (1 :> 1) @@ (2 :> 0) @@ (3 :> 0)

\* knapsack_dwave has returned its tuple.
KnapsackReturned == KnapsackDone /\ out.kind = "return"

\* C24: whenever knapsack_dwave returns normally the returned values agree
\* with each other: selected_items lists, once each, exactly the variables
\* the chosen sample sets to 1; total_value is the sum of their values and
\* is minus best_solution_energy; total_weight is the sum of their weights
\* and, the backend flagging a sample feasible only if it meets the
\* capacity constraint, does not exceed max_weight.
C24_KnapsackReturnConsistent ==
    KnapsackReturned =>
        LET chosen == out.best.sample
            ones == {i \in DOMAIN chosen : chosen[i] = 1}
        IN  /\ Range(out.selected_items) = ones
            /\ Len(out.selected_items) = Cardinality(ones)
            /\ out.total_value = SumFun(items.values, ones)
            /\ out.total_value = 0 - out.best_solution_energy
            /\ out.best_solution_energy = out.best.energy
            /\ out.total_weight = SumFun(items.weights, ones)
            /\ (\A i \in DOMAIN response :
                   response[i].is_feasible =>
                      SumFun([j \in DOMAIN items.weights |->
                                 items.weights[j] * response[i].sample[j]],
                             DOMAIN items.weights) <= items.max_weight)
               => out.total_weight <= items.max_weight

C24_Witness ==
    /\ KnapsackReturned
    /\ Len(out.selected_items) = 1
    /\ Cardinality(DOMAIN items.values) = 2
    /\ out.total_value = 2 /\ out.total_weight = 1
    /\ out.best_solution_energy = -2
    /\ items.max_weight = 2

\* The least number of cut edges over the assignments of g's nodes whose
\* subset size is floor(n/2) or ceil(n/2): the minimum bisection width.
MinBisection(g) ==
    LET n == Len(g.nodes)
        widths == {Cardinality(CutEdges(g.edges, x)) :
                      x \in {y \in Assignments(Range(g.nodes)) : Balanced(y, n)}}
    IN  CHOOSE w \in widths : \A u \in widths : w <= u

\* The penalty weight exceeds the number of edges of the graph.
PenaltyDominates == gamma > Len(G.edges)

\* C25: if gamma is greater than the number of edges, every minimum-energy
\* assignment of the partitioning map has subset size floor(n/2) or
\* ceil(n/2) and cuts the least number of edges among the assignments of
\* those sizes; so whenever record 0 is a minimum-energy sample the
\* interpreter reports "Valid partition" with the minimum bisection width.
C25_LargePenaltyGivesMinimumBisection ==
    /\ (PartitionEncoded /\ PenaltyDominates) =>
          LET E == [x \in Assignments(NodeSet) |-> Energy(Q, x)]
          IN  \A x \in Assignments(NodeSet) :
                 (\A y \in Assignments(NodeSet) : E[x] <= E[y]) =>
                     /\ Balanced(x, Len(G.nodes))
                     /\ SizeOk(x, Len(G.nodes))
                     /\ Cardinality(CutEdges(G.edges, x)) = MinBisection(G)
    /\ (PartitionDone /\ PenaltyDominates) =>
          (\/ out = [kind |-> "valid", num_cut_edges |-> MinBisection(G)]
           \/ ~MinEnergy(Q, response[1].sample))

C25_Witness ==
    /\ PartitionDone /\ PenaltyDominates
    /\ Len(G.nodes) = 3 /\ Len(G.edges) = 2
    /\ MinEnergy(Q, response[1].sample)
    /\ out = [kind |-> "valid", num_cut_edges |-> 1]

\* The assignment 1 - x: the two subsets exchanged.
Complement(x) == [v \in DOMAIN x |-> 1 - x[v]]

\* C26: exchanging the two subsets leaves the energy unchanged.  For every
\* graph and every assignment x the max-cut map gives x and 1 - x the same
\* energy, and for even n so does the partitioning map, whatever gamma;
\* hence the complement of a minimum-energy assignment is one too.
C26_ComplementSymmetry ==
    (/\ pc = "sample"
     /\ \/ variant = "maxcut"
        \/ variant = "partition" /\ Len(G.nodes) % 2 = 0) =>
        LET E == [x \in Assignments(NodeSet) |-> Energy(Q, x)]
        IN  \A x \in Assignments(NodeSet) :
               /\ E[Complement(x)] = E[x]
               /\ (\A y \in Assignments(NodeSet) : E[x] <= E[y]) =>
                     (\A y \in Assignments(NodeSet) : E[Complement(x)] <= E[y])

C26_Witness ==
    /\ variant = "partition" /\ pc = "sample"
    /\ Len(G.nodes) = 4 /\ Len(G.edges) = 3 /\ gamma = 2
    /\ \E x \in Assignments(NodeSet) :
          /\ SetOne(x) = {0, 1}
          /\ SetOne(Complement(x)) = {2, 3}
          /\ MinEnergy(Q, x)
          /\ Energy(Q, Complement(x)) = Energy(Q, x)
          /\ Energy(Q, x) = -7

\* The number of edges the max-cut loop has processed so far.
Processed == IF pc = "edges" THEN k - 1 ELSE Len(G.edges)

\* The number of the first j edges of G that are incident to node i.
Incident(i, j) ==
    Cardinality({m \in 1..j : i \in {G.edges[m][1], G.edges[m][2]}})

\* The diagonal and the off-diagonal keys of a coefficient map.
Diagonal(Qm) == {key \in DOMAIN Qm : key[1] = key[2]}
OffDiagonal(Qm) == {key \in DOMAIN Qm : key[1] # key[2]}

\* C27: during the max-cut loop over a simple graph, after any prefix of the
\* edges has been processed, Q[(i,i)] is minus the number of processed edges
\* incident to node i, Q[(i,j)] is 2 for every processed edge (i,j) and no
\* other off-diagonal key exists, and the diagonal entries sum to minus the
\* sum of the off-diagonal entries; at the end Q[(i,i)] = -degree(i).
C27_MaxCutLoopInvariant ==
    variant = "maxcut" =>
        /\ \A i \in NodeSet : Coefficient(Q, <<i, i>>) = 0 - Incident(i, Processed)
        /\ \A key \in Diagonal(Q) : key[1] \in NodeSet /\ Q[key] < 0
        /\ OffDiagonal(Q) = {G.edges[m] : m \in 1..Processed}
        /\ \A key \in OffDiagonal(Q) : Q[key] = 2
        /\ SumFun(Q, Diagonal(Q)) = 0 - SumFun(Q, OffDiagonal(Q))
        /\ pc # "edges" =>
              \A i \in NodeSet : Q[<<i, i>>] = 0 - Incident(i, Len(G.edges))

C27_Witness ==
    /\ variant = "maxcut" /\ pc = "edges"
    /\ Len(G.edges) = 3 /\ k = 3
    /\ Cardinality(Diagonal(Q)) = 3
    /\ \E i \in NodeSet : Q[<<i, i>>] = -2
    /\ SumFun(Q, Diagonal(Q)) = -4
    /\ \E key \in OffDiagonal(Q) : key[1] > key[2]

\* The position of node v in the iteration order of G.nodes.
Position(v) == CHOOSE m \in DOMAIN G.nodes : G.nodes[m] = v

\* G.edges reports every edge with its endpoints in the order of G.nodes.
EdgesFollowNodeOrder ==
    \A m \in DOMAIN G.edges : Position(G.edges[m][1]) < Position(G.edges[m][2])

\* C28: for a graph whose nodes are iterated in a fixed order and whose
\* edges are reported with endpoints in that same order, the finished
\* partitioning map has exactly n diagonal keys and n*(n-1)/2 off-diagonal
\* keys, stores no pair under both (i,j) and (j,i), and holds
\* Q[(i,i)] = degree(i) + gamma*(1-n), Q[(i,j)] = 2*gamma - 2 for an edge
\* (i,j) and 2*gamma for any other pair.
C28_PartitionMapShape ==
    (PartitionEncoded /\ EdgesFollowNodeOrder) =>
        LET n == Len(G.nodes)
        IN  /\ Diagonal(Q) = {<<i, i>> : i \in NodeSet}
            /\ Cardinality(Diagonal(Q)) = n
            /\ OffDiagonal(Q) = Range(combinations(G.nodes))
            /\ 2 * Cardinality(OffDiagonal(Q)) = n * (n - 1)
            /\ \A key \in OffDiagonal(Q) : <<key[2], key[1]>> \notin DOMAIN Q
            /\ \A i \in NodeSet :
                  Q[<<i, i>>] = Incident(i, Len(G.edges)) + gamma * (1 - n)
            /\ \A key \in OffDiagonal(Q) :
                  Q[key] = IF key \in Range(G.edges) THEN 2 * gamma - 2 ELSE 2 * gamma

C28_Witness ==
    /\ PartitionEncoded /\ EdgesFollowNodeOrder
    /\ Len(G.nodes) = 4 /\ Len(G.edges) = 2 /\ gamma = 3
    /\ Cardinality(DOMAIN Q) = 10
    /\ Q[<<0, 0>>] = -7 /\ Q[<<0, 1>>] = 4 /\ Q[<<2, 3>>] = 6

\* The sequences a and b list every element of the sequence all exactly
\* once between them (all itself has no repetition).
SplitsExactly(a, b, all) ==
    /\ Range(a) \cap Range(b) = {}
    /\ Range(a) \cup Range(b) = Range(all)
    /\ Len(a) + Len(b) = Len(all)
    /\ Cardinality(Range(all)) = Len(all)

\* C29: for every binary assignment lut over the graph's nodes, the max-cut
\* interpreter's S0 and S1 are disjoint and together hold every node exactly
\* once, cut_edges and uncut_edges are disjoint and together hold every edge
\* exactly once, an edge being in cut_edges exactly when its endpoints lie
\* in different sets; the Set 0 and Set 1 of each printed row split the
\* nodes in the same way.
C29_InterpreterPartitions ==
    MaxCutDone =>
        /\ DOMAIN out.lut = NodeSet
        /\ SplitsExactly(out.S0, out.S1, G.nodes)
        /\ \A v \in NodeSet : v \in Range(out.S1) <=> out.lut[v] = 1
        /\ SplitsExactly(out.cut_edges, out.uncut_edges, G.edges)
        /\ \A e \in Range(G.edges) :
              e \in Range(out.cut_edges) <=>
                 ~(e[1] \in Range(out.S0) <=> e[2] \in Range(out.S0))
        /\ \A i \in DOMAIN out.rows :
              /\ Range(out.rows[i].S0) \cap Range(out.rows[i].S1) = {}
              /\ Range(out.rows[i].S0) \cup Range(out.rows[i].S1) = NodeSet
              /\ Len(out.rows[i].S0) + Len(out.rows[i].S1) = Len(G.nodes)

C29_Witness ==
    /\ MaxCutDone
    /\ Len(G.nodes) = 3 /\ Len(G.edges) = 3
    /\ Len(out.S1) = 2
    /\ Len(out.cut_edges) = 2 /\ Len(out.uncut_edges) = 1
    /\ out.lut[out.uncut_edges[1][1]] = 1
====
